---- MODULE Spec2Model ----
(***************************************************************************)
(* ARK-Drop-Desktop: the sender page (routes/transfers/send, in the        *)
(* version whose sender_progress listener is live), the receiver page      *)
(* (routes/transfers/transferring), lib/util.getConfirmationCode and the   *)
(* receiving device's pairing pages (scan, confirm with three codes,       *)
(* confirm with a typed code), modelled as state machines driven by the    *)
(* user, the Tauri engine's promises and its events.  JavaScript strings   *)
(* are TLA+ strings; their characters are reached with Len, SubSeq and \o. *)
(***************************************************************************)
EXTENDS Integers, Sequences, FiniteSets, TLC

VARIABLES
    files,            \* sender: data.files, the paths of the URL's file parameters
    confirmationCode, \* sender: number | undefined
    hashCode,         \* sender: string | undefined
    connection_id,    \* sender: string | null
    status,           \* sender: 'waiting' | 'transferring' | 'completed' | 'aborted'
    messages,         \* sender: string[]
    connected,        \* sender: boolean
    totalBlobs,       \* sender: number
    transferredBlobs, \* sender: number
    ticketCall,       \* sender: the promise of invoke('generate_ticket') awaited by onMount
    received,         \* sender: the payloads the sender_progress channel has delivered, oldest first
    dataTicket,       \* receiver: data.ticket, the URL's ticket parameter
    time_complete,    \* receiver: number | undefined
    done,             \* receiver: boolean
    output,           \* receiver: string
    transferFiles,    \* receiver: FileTransferDTO[]
    start,            \* receiver: onMount's local start = Date.now()
    receiveCall,      \* receiver: the promise of invoke('receive_files') awaited by onMount
    progress,         \* receiver: the payloads the download_progress channel has delivered, oldest first
    opened,           \* receiver: the directory invoke('open_directory') was called with, once called
    route,            \* pairing: the page the receiving device shows
    decodedText,      \* pairing: the text handed over by the scan page (QR result or devHash)
    dataHash,         \* pairing: data.hash of the confirm page
    dataConfirmationCode, \* pairing: data.confirmationCode of the confirm page
    codes,            \* pairing: the codes the confirm page offers, in display order
    selected,         \* pairing: the code of the Code button that was clicked
    typedCode,        \* pairing: confirmationCode of the typed-code confirm page, bound to its input
    isValidHash,      \* pairing: the promise invoke('is_valid_ticket') returned to the confirm page
    attempts,         \* pairing: the passes of the confirm page's while loop taken so far, up to MaxAttempts
    file,             \* FileTransfer: the file prop
    previousFile,     \* FileTransfer: previousFile
    internetSpeed,    \* FileTransfer: internetSpeed
    timeLeft,         \* FileTransfer: timeLeft, a quotient
    senderListeners,  \* webview: the callbacks registered for sender_progress
    receiverListeners, \* webview: the callbacks registered for download_progress
    handle,           \* util: the argument passed to getConfirmationCode
    code              \* util: the value getConfirmationCode returned, once called

sendVars == <<files, confirmationCode, hashCode, connection_id, status, messages,
              connected, totalBlobs, transferredBlobs, ticketCall, received>>

recvVars == <<dataTicket, time_complete, done, output, transferFiles, start, receiveCall,
              progress, opened>>

pairVars == <<route, decodedText, dataHash, dataConfirmationCode, codes, selected, typedCode,
              isValidHash, attempts>>

pairVarsButRoute == <<decodedText, dataHash, dataConfirmationCode, codes, selected, typedCode,
                      isValidHash, attempts>>

utilVars == <<handle, code>>

compVars == <<file, previousFile, internetSpeed, timeLeft>>

visitVars == <<senderListeners, receiverListeners>>

vars == <<sendVars, recvVars, utilVars, pairVars, compVars, visitVars>>

-----------------------------------------------------------------------------
(* Bounds *)

MaxFiles == 3
MaxEvents == 3
MaxRun == 5
MaxLen == 3
MaxClock == 2
MaxBytes == 2
MaxSnapshots == 2
MaxText == 1
MaxAttempts == 3
MaxVisits == 2

-----------------------------------------------------------------------------
(* undefined / null and a present value *)

None == << >>
Some(v) == << v >>

-----------------------------------------------------------------------------
(* String.prototype.split(sep), Array.prototype.join(sep),                 *)
(* Array.prototype.slice(from), String.prototype.startsWith(prefix)        *)

RECURSIVE IndexOf(_, _, _)
IndexOf(s, sep, from) ==
    IF from > Len(s) THEN 0
    ELSE IF SubSeq(s, from, from) = sep THEN from
    ELSE IndexOf(s, sep, from + 1)

RECURSIVE Split(_, _)
Split(s, sep) ==
    LET k == IndexOf(s, sep, 1)
    IN  IF k = 0 THEN << s >>
        ELSE << SubSeq(s, 1, k - 1) >> \o Split(SubSeq(s, k + 1, Len(s)), sep)

RECURSIVE Join(_, _)
Join(parts, sep) ==
    IF Len(parts) = 0 THEN ""
    ELSE IF Len(parts) = 1 THEN parts[1]
    ELSE parts[1] \o sep \o Join(Tail(parts), sep)

Slice(parts, from) == SubSeq(parts, from + 1, Len(parts))

StartsWith(s, prefix) ==
    /\ Len(s) >= Len(prefix)
    /\ SubSeq(s, 1, Len(prefix)) = prefix

-----------------------------------------------------------------------------
(* lib/util.ts getConfirmationCode *)

Alphabet == {"a", "b", "d", ":"}

charCodeAt(c) ==
    CASE c = "a" -> 97
      [] c = "b" -> 98
      [] c = "d" -> 100
      [] c = "e" -> 101
      [] c = ":" -> 58
      [] c = "+" -> 43
      [] c = " " -> 32
      [] c = "%" -> 37

SplitChars(s) == [i \in 1..Len(s) |-> SubSeq(s, i, i)]

RECURSIVE Reduce(_, _)
Reduce(nums, acc) ==
    IF nums = << >> THEN acc
    ELSE Reduce(Tail(nums), acc + Head(nums))

(* getConfirmationCode reducing modulo 10 instead of 100 *)
getConfirmationCodeMod10(hash) ==
    LET chars == SplitChars(hash)
        charCodes == [i \in 1..Len(chars) |-> charCodeAt(chars[i])]
    IN  Reduce(charCodes, 0) % 10

getConfirmationCode(hash) ==
    LET chars == SplitChars(hash)
        charCodes == [i \in 1..Len(chars) |-> charCodeAt(chars[i])]
    IN  Reduce(charCodes, 0) % 100

-----------------------------------------------------------------------------
(* The sender page: routes/transfers/send *)

Path(i) == "/f" \o ToString(i)

FileSets == {[i \in 1..n |-> Path(i)] : n \in 1..MaxFiles}

Tickets == {"ab", "dd"}

ConnIds == {"c1", "c2"}

Actions == {"client connected", "transfer blob completed",
            "transfer completed", "transfer aborted"}

Payloads == {id \o " " \o a : id \in ConnIds, a \in Actions}

(* The script block of the page, run once when the page is constructed;   *)
(* onMount has called invoke('generate_ticket') and is awaiting it.       *)
SendInit ==
    /\ files \in FileSets
    /\ confirmationCode = None
    /\ hashCode = None
    /\ connection_id = None
    /\ status = "waiting"
    /\ messages = << >>
    /\ connected = FALSE
    /\ totalBlobs = Len(files)
    /\ transferredBlobs = 0
    /\ ticketCall = "pending"
    /\ received = << >>

(* The send page is not open *)
SendIdle ==
    /\ files = << >>
    /\ confirmationCode = None
    /\ hashCode = None
    /\ connection_id = None
    /\ status = "waiting"
    /\ messages = << >>
    /\ connected = FALSE
    /\ totalBlobs = 0
    /\ transferredBlobs = 0
    /\ ticketCall = "idle"
    /\ received = << >>

(* onMount: invoke('generate_ticket') resolves with the ticket string *)
onMountResolved ==
    /\ ticketCall = "pending"
    /\ \E t \in Tickets :
        /\ hashCode' = Some(t)
        /\ confirmationCode' = Some(getConfirmationCode(t))
    /\ ticketCall' = "resolved"
    /\ UNCHANGED <<files, totalBlobs, received, connection_id, status,
                   messages, connected, transferredBlobs>>
    /\ UNCHANGED <<recvVars, utilVars, pairVars, compVars, visitVars>>

(* onMount: invoke('generate_ticket') rejects; the await throws out of onMount *)
onMountRejected ==
    /\ ticketCall = "pending"
    /\ ticketCall' = "rejected"
    /\ UNCHANGED <<files, totalBlobs, received, hashCode, confirmationCode,
                   connection_id, status, messages, connected, transferredBlobs>>
    /\ UNCHANGED <<recvVars, utilVars, pairVars, compVars, visitVars>>

(* The 'client connected' branch without the reset of transferredBlobs *)
clientConnectedNoReset(conn_id) ==
    /\ connection_id' = Some(conn_id)
    /\ status' = "transferring"
    /\ connected' = TRUE
    /\ messages' = Append(messages, "Client connected")
    /\ UNCHANGED transferredBlobs

(* if (action === 'client connected') { ... } *)
clientConnected(conn_id) ==
    /\ connection_id' = Some(conn_id)
    /\ status' = "transferring"
    /\ connected' = TRUE
    /\ messages' = Append(messages, "Client connected")
    /\ transferredBlobs' = 0

(* The 'transfer blob completed' branch storing 1 instead of adding 1 *)
blobCompletedAssign ==
    /\ transferredBlobs' = 1
    /\ messages' = Append(messages, "Blob transferred")
    /\ UNCHANGED <<connection_id, status, connected>>

(* else if (action.startsWith('transfer blob completed')) { ... } *)
blobCompleted ==
    /\ transferredBlobs' = transferredBlobs + 1
    /\ messages' = Append(messages, "Blob transferred")
    /\ UNCHANGED <<connection_id, status, connected>>

(* The 'transfer completed' branch without forcing transferredBlobs *)
transferCompletedKeepCount ==
    /\ status' = "completed"
    /\ messages' = Append(messages, "Transfer completed")
    /\ UNCHANGED <<connection_id, connected, transferredBlobs>>

(* else if (action.startsWith('transfer completed')) { ... } *)
transferCompleted ==
    /\ status' = "completed"
    /\ transferredBlobs' = totalBlobs
    /\ messages' = Append(messages, "Transfer completed")
    /\ UNCHANGED <<connection_id, connected>>

(* The 'transfer aborted' branch clearing the count of blobs as well *)
transferAbortedReset ==
    /\ status' = "aborted"
    /\ messages' = Append(messages, "Transfer aborted")
    /\ transferredBlobs' = 0
    /\ UNCHANGED <<connection_id, connected>>

(* else if (action === 'transfer aborted') { ... } *)
transferAborted ==
    /\ status' = "aborted"
    /\ messages' = Append(messages, "Transfer aborted")
    /\ UNCHANGED <<connection_id, connected, transferredBlobs>>

(* The body of the sender_progress listener *)
onSenderProgress(message) ==
    LET parts == Split(message, " ")
        conn_id == parts[1]
        action == Join(Slice(parts, 1), " ")
    IN  IF action = "client connected" THEN clientConnected(conn_id)
        ELSE IF StartsWith(action, "transfer blob completed") THEN blobCompleted
        ELSE IF StartsWith(action, "transfer completed") THEN transferCompleted
        ELSE IF action = "transfer aborted" THEN transferAborted
        ELSE UNCHANGED <<connection_id, status, messages, connected, transferredBlobs>>

(* listen('sender_progress', ...): the channel delivers one payload, the   *)
(* callback runs on it; at most limit payloads are delivered              *)
deliver(limit) ==
    /\ ticketCall # "idle"
    /\ Len(received) < limit
    /\ \E message \in Payloads :
        /\ received' = Append(received, message)
        /\ onSenderProgress(message)
    /\ UNCHANGED <<files, totalBlobs, hashCode, confirmationCode, ticketCall>>
    /\ UNCHANGED <<recvVars, utilVars, pairVars, compVars, visitVars>>

(* Events arriving at any time after the page was constructed *)
sender_progress == deliver(MaxEvents)

(* Events arriving once the ticket is on display *)
sender_progress_run == deliver(MaxRun)

(* The send page with its ticket on display and no event delivered yet *)
TicketShown ==
    /\ files \in FileSets
    /\ \E t \in Tickets :
        /\ hashCode = Some(t)
        /\ confirmationCode = Some(getConfirmationCode(t))
    /\ connection_id = None
    /\ status = "waiting"
    /\ messages = << >>
    /\ connected = FALSE
    /\ totalBlobs = Len(files)
    /\ transferredBlobs = 0
    /\ ticketCall = "resolved"
    /\ received = << >>

(* Math.round of the quotient num / den of two non-negative numbers *)
(* {#if confirmationCode} inside {#if status === 'waiting'}: undefined  *)
(* and 0 are falsy                                                      *)
ConfirmationCodeShown ==
    /\ status = "waiting"
    /\ confirmationCode # None
    /\ confirmationCode[1] # 0

(* {#if hashCode} inside {#if status === 'waiting'}: undefined and ''    *)
(* are falsy                                                            *)
QrCodeShown ==
    /\ status = "waiting"
    /\ hashCode # None
    /\ hashCode[1] # ""

MathRound(num, den) == (2 * num + den) \div (2 * den)

(* The transferring view's {Math.round((transferredBlobs / totalBlobs) * 100)}% *)
ProgressText ==
    IF totalBlobs = 0 THEN "NaN%"
    ELSE ToString(MathRound(transferredBlobs * 100, totalBlobs)) \o "%"

-----------------------------------------------------------------------------
(* The receiver page: routes/transfers/transferring *)

ReceiveTickets == {"ab:95", "dd:0"}

Directories == {"/downloads", "/tmp"}

BlobNames == <<"x", "y">>

(* FileTransfer of lib/types.ts *)
FileTransferDTO == [name : {BlobNames[i] : i \in 1..Len(BlobNames)},
                    transferred : 0..MaxBytes,
                    total : {MaxBytes}]

(* The payloads of download_progress: the engine's list of blobs *)
Snapshots ==
    {s \in UNION {[1..n -> FileTransferDTO] : n \in 0..Len(BlobNames)} :
        \A i \in 1..Len(s) : s[i].name = BlobNames[i]}

(* The script block of the page, run once when the page is constructed;   *)
(* onMount has taken start = Date.now(), called invoke('receive_files')   *)
(* and is awaiting it.                                                    *)
RecvInit ==
    /\ dataTicket \in ReceiveTickets
    /\ time_complete = None
    /\ done = FALSE
    /\ output = ""
    /\ transferFiles = << >>
    /\ start = 0
    /\ receiveCall = "pending"
    /\ progress = << >>
    /\ opened = None

(* The transferring page is not open *)
RecvIdle ==
    /\ dataTicket = ""
    /\ time_complete = None
    /\ done = FALSE
    /\ output = ""
    /\ transferFiles = << >>
    /\ start = 0
    /\ receiveCall = "idle"
    /\ progress = << >>
    /\ opened = None

(* onMount: invoke('receive_files') resolves with the output directory *)
receiveResolved ==
    /\ receiveCall = "pending"
    /\ \E dir \in Directories, now \in start..MaxClock :
        /\ output' = dir
        /\ time_complete' = Some(now - start)
    /\ done' = TRUE
    /\ receiveCall' = "resolved"
    /\ UNCHANGED <<dataTicket, transferFiles, start, progress, opened>>
    /\ UNCHANGED <<sendVars, utilVars, pairVars, compVars, visitVars>>

(* An onMount whose done = true sits in a finally block *)
receiveRejectedDone ==
    /\ receiveCall = "pending"
    /\ receiveCall' = "rejected"
    /\ done' = TRUE
    /\ UNCHANGED <<dataTicket, time_complete, output, transferFiles, start, progress, opened>>
    /\ UNCHANGED <<sendVars, utilVars, pairVars, compVars, visitVars>>

(* onMount: invoke('receive_files') rejects; catch (error) logs it *)
receiveRejected ==
    /\ receiveCall = "pending"
    /\ receiveCall' = "rejected"
    /\ UNCHANGED <<dataTicket, time_complete, done, output, transferFiles, start, progress, opened>>
    /\ UNCHANGED <<sendVars, utilVars, pairVars, compVars, visitVars>>

(* The 'Open in File Manager' button, rendered in the {:else} branch of *)
(* {#if done === false}: invoke('open_directory', { directory: output }) *)
openDirectory ==
    /\ done
    /\ opened' = Some(output)
    /\ UNCHANGED <<dataTicket, time_complete, done, output, transferFiles, start,
                   receiveCall, progress>>
    /\ UNCHANGED <<sendVars, utilVars, pairVars, compVars, visitVars>>

(* A listener that adds the delivered byte counts to the ones it holds *)
onDownloadProgressAccumulate(payload) ==
    transferFiles' =
        [i \in 1..Len(payload) |->
            IF i <= Len(transferFiles)
            THEN [payload[i] EXCEPT
                    !.transferred = transferFiles[i].transferred + payload[i].transferred]
            ELSE payload[i]]

(* A listener that appends the delivered blobs to the list it holds *)
onDownloadProgressAppend(payload) ==
    transferFiles' = transferFiles \o payload

(* The body of the download_progress listener *)
onDownloadProgress(payload) ==
    transferFiles' = payload

(* listen('download_progress', ...): the channel delivers one snapshot *)
download_progress ==
    /\ receiveCall # "idle"
    /\ Len(progress) < MaxSnapshots
    /\ \E payload \in Snapshots :
        /\ progress' = Append(progress, payload)
        /\ onDownloadProgress(payload)
    /\ UNCHANGED <<dataTicket, time_complete, done, output, start, receiveCall, opened>>
    /\ UNCHANGED <<sendVars, utilVars, pairVars, compVars, visitVars>>

(* The headline of the page: {#if done} ... {:else} ... {/if} *)
Headline ==
    IF done THEN "Files Received" ELSE "Wait a moment while transfering"

-----------------------------------------------------------------------------
(* Calls of getConfirmationCode on arbitrary strings *)

RECURSIVE Strings(_)
Strings(n) ==
    IF n = 0 THEN {""}
    ELSE LET shorter == Strings(n - 1)
         IN  shorter \cup {s \o c : s \in shorter, c \in Alphabet}

UtilInit ==
    /\ handle \in Strings(MaxLen)
    /\ code = None

UtilIdle ==
    /\ handle = ""
    /\ code = None

callGetConfirmationCode ==
    /\ code = None
    /\ code' = Some(getConfirmationCode(handle))
    /\ UNCHANGED handle
    /\ UNCHANGED <<sendVars, recvVars, pairVars, compVars, visitVars>>

-----------------------------------------------------------------------------
(* The receiving device's pages before the transfer *)

(* No scan or confirm page is open; the device shows page r *)
PairIdle(r) ==
    /\ route = r
    /\ decodedText = None
    /\ dataHash = None
    /\ dataConfirmationCode = None
    /\ codes = << >>
    /\ selected = None
    /\ typedCode = ""
    /\ isValidHash = "none"
    /\ attempts = 0

(* n callbacks are registered for sender_progress, m for download_progress *)
Registered(n, m) ==
    /\ senderListeners = n
    /\ receiverListeners = m

(* No FileTransfer component is mounted *)
CompIdle ==
    /\ file = None
    /\ previousFile = None
    /\ internetSpeed = 0
    /\ timeLeft = None


(* The pages of the pairing flow *)
ScanPage == "/transfers/recieve"
ManualPage == "/transfers/receive"
ConfirmPage == "/transfers/recieve/confirm"
TypedConfirmPage == "/transfers/receive/confirm"
TransferringPage == "/transfers/transferring"

(* encodeURIComponent: every character but the unreserved ones is escaped *)
EncodeURIComponentChar(c) ==
    CASE c = ":" -> "%3A"
      [] c = "+" -> "%2B"
      [] c = " " -> "%20"
      [] c = "%" -> "%25"
      [] c = "&" -> "%26"
      [] c = "=" -> "%3D"
      [] c = "#" -> "%23"
      [] c = "?" -> "%3F"
      [] OTHER -> c

RECURSIVE encodeURIComponent(_)
encodeURIComponent(s) ==
    IF Len(s) = 0 THEN ""
    ELSE EncodeURIComponentChar(SubSeq(s, 1, 1)) \o encodeURIComponent(SubSeq(s, 2, Len(s)))

(* The bytes the escapes of this model stand for *)
Escapes == {"3A", "2B", "20", "25", "26", "3D", "23", "3F"}

PercentDecodeByte(hex) ==
    CASE hex = "3A" -> ":"
      [] hex = "2B" -> "+"
      [] hex = "20" -> " "
      [] hex = "25" -> "%"
      [] hex = "26" -> "&"
      [] hex = "3D" -> "="
      [] hex = "23" -> "#"
      [] hex = "3F" -> "?"

(* URLSearchParams' decoding of a name or value: '+' is a space, %XX is  *)
(* its byte, a '%' that starts no escape stays                           *)
RECURSIVE FormDecode(_)
FormDecode(s) ==
    IF Len(s) = 0 THEN ""
    ELSE IF SubSeq(s, 1, 1) = "+" THEN " " \o FormDecode(SubSeq(s, 2, Len(s)))
    ELSE IF SubSeq(s, 1, 1) = "%" /\ Len(s) >= 3 /\ SubSeq(s, 2, 3) \in Escapes
         THEN PercentDecodeByte(SubSeq(s, 2, 3)) \o FormDecode(SubSeq(s, 4, Len(s)))
    ELSE SubSeq(s, 1, 1) \o FormDecode(SubSeq(s, 2, Len(s)))

(* The end of the part of url that stops at the first of the characters  *)
(* stops                                                                 *)
RECURSIVE Until(_, _, _)
Until(url, stops, from) ==
    IF from > Len(url) \/ SubSeq(url, from, from) \in stops THEN from - 1
    ELSE Until(url, stops, from + 1)

(* new URL(url).pathname *)
Pathname(url) == SubSeq(url, 1, Until(url, {"?", "#"}, 1))

(* new URL(url).search without its '?': the URL parser escapes a space   *)
QueryChar(c) == IF c = " " THEN "%20" ELSE c

RECURSIVE QueryEscape(_)
QueryEscape(s) ==
    IF Len(s) = 0 THEN ""
    ELSE QueryChar(SubSeq(s, 1, 1)) \o QueryEscape(SubSeq(s, 2, Len(s)))

Search(url) ==
    LET p == Len(Pathname(url))
    IN  IF p < Len(url) /\ SubSeq(url, p + 1, p + 1) = "?"
        THEN QueryEscape(SubSeq(url, p + 2, Until(url, {"#"}, p + 2)))
        ELSE ""

(* url.searchParams.get(name): the value of the first name=value pair    *)
(* of the query with that name, or null                                  *)
searchParamsGet(url, name) ==
    LET pairs == Split(Search(url), "&")
        Key(pair) ==
            LET k == IndexOf(pair, "=", 1)
            IN  FormDecode(IF k = 0 THEN pair ELSE SubSeq(pair, 1, k - 1))
        Value(pair) ==
            LET k == IndexOf(pair, "=", 1)
            IN  FormDecode(IF k = 0 THEN "" ELSE SubSeq(pair, k + 1, Len(pair)))
        Named(pair) == Len(pair) > 0 /\ Key(pair) = name
        matching == SelectSeq(pairs, Named)
    IN  IF matching = << >> THEN None ELSE Some(Value(matching[1]))

(* String.prototype.trim *)
RECURSIVE TrimStart(_)
TrimStart(s) ==
    IF Len(s) > 0 /\ SubSeq(s, 1, 1) = " " THEN TrimStart(SubSeq(s, 2, Len(s))) ELSE s

RECURSIVE TrimEnd(_)
TrimEnd(s) ==
    IF Len(s) > 0 /\ SubSeq(s, Len(s), Len(s)) = " "
    THEN TrimEnd(SubSeq(s, 1, Len(s) - 1)) ELSE s

Trim(s) == TrimEnd(TrimStart(s))


(* What a QR code, the clipboard or the manual field can hold: the       *)
(* sender's tickets, short texts with characters a URL treats specially, *)
(* and a text that holds an escape                                       *)
TextAlphabet == {"a", "+", ":"}

RECURSIVE Texts(_)
Texts(n) ==
    IF n = 0 THEN {""}
    ELSE LET shorter == Texts(n - 1)
         IN  shorter \cup {s \o c : s \in shorter, c \in TextAlphabet}

ScanTexts == Tickets \cup (Texts(MaxText) \ {""}) \cup {"%2B"}

(* The values of getConfirmationCode *)
CodeRange == 0..99

(* The values of Math.floor(Math.random() * 100) *)
RandomCodes == 0..99

(* What the user can type into the confirmation-code field *)
TypedCodes == {ToString(c) : c \in CodeRange} \cup {" ", " 7 ", "zz", "100"}

(* Array.prototype.includes *)
Includes(cs, x) == \E i \in 1..Len(cs) : cs[i] = x

(* One pass of the while loop that pushes without looking for duplicates *)
whileBodyNoCheck(cs, randomCode) ==
    IF Len(cs) < 3 THEN Append(cs, randomCode) ELSE cs

(* One pass of the while loop of the confirm page, with randomCode the   *)
(* number the pass drew; a finished list passes through                  *)
whileBody(cs, randomCode) ==
    IF Len(cs) < 3 /\ ~Includes(cs, randomCode) THEN Append(cs, randomCode) ELSE cs

(* The lists the loop can end with when it starts from [c]: a pass that  *)
(* draws a code already in the list changes nothing, so the finished    *)
(* lists are those two growing passes produce                            *)
Grow(S) == {whileBody(cs, randomCode) : cs \in S, randomCode \in RandomCodes}

Challenges(c) == {cs \in Grow(Grow({<< c >>})) : Len(cs) = 3}

(* load and script of the confirm page with three codes.  isValidHash   *)
(* is the promise invoke('is_valid_ticket') returned, not awaited: an   *)
(* object, so !isValidHash is false and the goto('/transfers') under it *)
(* is not executed; the script goes on to build the codes.              *)
openConfirm(url) ==
    LET hash == searchParamsGet(url, "hash")
    IN  /\ IF hash = None
           THEN /\ route' = "/"
                /\ UNCHANGED <<dataHash, dataConfirmationCode, codes, isValidHash>>
           ELSE /\ route' = ConfirmPage
                /\ dataHash' = hash
                /\ dataConfirmationCode' = Some(getConfirmationCode(hash[1]))
                /\ isValidHash' = "pending"
                /\ codes' \in Challenges(getConfirmationCode(hash[1]))
        /\ UNCHANGED <<typedCode, attempts>>
        /\ UNCHANGED <<recvVars, visitVars>>

(* load and script of the confirm page with a typed code *)
openTypedConfirm(url) ==
    LET hash == searchParamsGet(url, "hash")
    IN  /\ IF hash = None
           THEN /\ route' = "/"
                /\ UNCHANGED <<dataHash, typedCode>>
           ELSE /\ route' = TypedConfirmPage
                /\ dataHash' = hash
                /\ typedCode' = ""
        /\ UNCHANGED <<dataConfirmationCode, codes, isValidHash, attempts>>
        /\ UNCHANGED <<recvVars, visitVars>>

(* load, script and onMount of the transferring page up to its await *)
transferringPage(url) ==
    LET ticketParam == searchParamsGet(url, "ticket")
    IN  IF ticketParam = None
           THEN /\ route' = "/"
                /\ UNCHANGED <<recvVars, visitVars>>
           ELSE /\ route' = TransferringPage
                /\ dataTicket' = ticketParam[1]
                /\ time_complete' = None
                /\ done' = FALSE
                /\ output' = ""
                /\ transferFiles' = << >>
                /\ start' = 0
                /\ receiveCall' = "pending"
                /\ progress' = << >>
                /\ opened' = None
                /\ receiverListeners' = receiverListeners + 1
                /\ UNCHANGED senderListeners

(* goto of a transferring URL: the pages left keep what they held *)
openTransferring(url) ==
    /\ transferringPage(url)
    /\ UNCHANGED <<dataHash, dataConfirmationCode, codes, typedCode, isValidHash, attempts>>

(* goto(url): the page of url's path is loaded and constructed; a path   *)
(* with no page shows the error page at that path.  The variables of    *)
(* the page that is left keep their last values.                         *)
goto(url) ==
    CASE Pathname(url) = ConfirmPage -> openConfirm(url)
      [] Pathname(url) = TypedConfirmPage -> openTypedConfirm(url)
      [] Pathname(url) = TransferringPage -> openTransferring(url)
      [] OTHER -> /\ route' = Pathname(url)
                  /\ UNCHANGED <<dataHash, dataConfirmationCode, codes, typedCode,
                                 isValidHash, attempts>>
                  /\ UNCHANGED <<recvVars, visitVars>>

(* recieve page, QrScanner version: the scanner's result callback *)
scanResult ==
    /\ route = ScanPage
    /\ \E text \in ScanTexts :
        /\ decodedText' = Some(text)
        /\ goto("/transfers/receive/confirm?hash=" \o text)
    /\ UNCHANGED selected
    /\ UNCHANGED <<sendVars, utilVars, compVars>>

(* recieve page, Html5Qrcode version *)
qrCodeSuccessCallback ==
    /\ route = ScanPage
    /\ \E text \in ScanTexts :
        /\ decodedText' = Some(text)
        /\ goto("/transfers/recieve/confirm?hash=" \o text)
    /\ UNCHANGED selected
    /\ UNCHANGED <<sendVars, utilVars, compVars>>

(* receive page: redirect(hash), called with the scanned text or with a  *)
(* non-empty devHash by Continue                                         *)
redirect ==
    /\ route = ManualPage
    /\ \E text \in ScanTexts :
        /\ decodedText' = Some(text)
        /\ goto("/transfers/receive/confirm?hash=" \o text)
    /\ UNCHANGED selected
    /\ UNCHANGED <<sendVars, utilVars, compVars>>

(* on:click of the i-th Code button of the confirm page *)
clickCode(i) ==
    /\ selected' = Some(codes[i])
    /\ IF codes[i] = dataConfirmationCode[1]
       THEN goto("/transfers/transferring?ticket=" \o dataHash[1])
       ELSE goto("/transfers/failed")

click ==
    /\ route = ConfirmPage
    /\ \E i \in 1..Len(codes) : clickCode(i)
    /\ UNCHANGED decodedText
    /\ UNCHANGED <<sendVars, utilVars, compVars>>

(* The promise of invoke('is_valid_ticket') settles with the engine's   *)
(* answer.  Nothing awaits it and no handler is attached to it, so only *)
(* the promise itself changes.                                          *)
isValidTicketSettled ==
    /\ isValidHash = "pending"
    /\ isValidHash' \in {"valid", "invalid"}
    /\ UNCHANGED <<route, decodedText, dataHash, dataConfirmationCode, codes, selected,
                   typedCode, attempts>>
    /\ UNCHANGED <<sendVars, recvVars, utilVars, compVars, visitVars>>

(* on:click of Back on the confirm page, which is rendered once its     *)
(* script has run: the pairing attempt is given up and the page is      *)
(* destroyed with what it held                                          *)
back ==
    /\ route = ConfirmPage
    /\ Len(codes) = 3
    /\ route' = "/transfers"
    /\ decodedText' = None
    /\ dataHash' = None
    /\ dataConfirmationCode' = None
    /\ codes' = << >>
    /\ isValidHash' = "none"
    /\ attempts' = 0
    /\ UNCHANGED <<selected, typedCode>>
    /\ UNCHANGED <<sendVars, recvVars, utilVars, compVars, visitVars>>

(* on:click of Send on the transfers page with a non-empty selection:   *)
(* goto('/transfers/send?file=..') constructs the send page, whose      *)
(* script initialises the session and calls listen('sender_progress').  *)
(* The unlisten function listen resolves with is dropped.               *)
sendClick ==
    /\ route = "/transfers"
    /\ senderListeners < MaxVisits
    /\ route' = "/transfers/send"
    /\ files' \in FileSets
    /\ confirmationCode' = None
    /\ hashCode' = None
    /\ connection_id' = None
    /\ status' = "waiting"
    /\ messages' = << >>
    /\ connected' = FALSE
    /\ totalBlobs' = Len(files')
    /\ transferredBlobs' = 0
    /\ ticketCall' = "pending"
    /\ received' = << >>
    /\ senderListeners' = senderListeners + 1
    /\ UNCHANGED receiverListeners
    /\ UNCHANGED <<recvVars, utilVars, pairVarsButRoute, compVars>>

(* on:click of Back on the send page: the page is left, and no code     *)
(* removes the listener its script registered                           *)
sendBack ==
    /\ route = "/transfers/send"
    /\ route' = "/transfers"
    /\ UNCHANGED <<sendVars, recvVars, utilVars, pairVarsButRoute, compVars, visitVars>>

(* on:click of the close button of the transferring page: the page is   *)
(* left, and no code removes the listener its script registered         *)
closeTransferring ==
    /\ route = TransferringPage
    /\ receiverListeners < MaxVisits
    /\ route' = "/transfers"
    /\ UNCHANGED <<sendVars, recvVars, utilVars, pairVarsButRoute, compVars, visitVars>>

(* The receive flow taken in one step from the transfers page: Receive, *)
(* the scan of ticket t, the confirm page with one of the lists its     *)
(* loop can build, and the click on the matching code, which ends in    *)
(* goto('/transfers/transferring?ticket=' + data.hash); the script of   *)
(* the transferring page calls listen('download_progress').             *)
receiveTicket ==
    /\ route = "/transfers"
    /\ \E t \in Tickets :
        LET c == getConfirmationCode(t)
        IN  /\ decodedText' = Some(t)
            /\ dataHash' = Some(t)
            /\ dataConfirmationCode' = Some(c)
            /\ codes' = << c, (c + 1) % 100, (c + 2) % 100 >>
            /\ selected' = Some(c)
            /\ isValidHash' \in {"pending", "valid", "invalid"}
            /\ transferringPage("/transfers/transferring?ticket=" \o t)
    /\ UNCHANGED <<typedCode, attempts>>
    /\ UNCHANGED <<sendVars, utilVars, compVars>>

(* on:click of Receive on the transfers page *)
receiveClick ==
    /\ route = "/transfers"
    /\ route' = ScanPage
    /\ UNCHANGED <<decodedText, dataHash, dataConfirmationCode, codes, selected, typedCode,
                   isValidHash, attempts>>
    /\ UNCHANGED <<sendVars, recvVars, utilVars, compVars, visitVars>>

(* bind:value of the confirmation-code field *)
input ==
    /\ route = TypedConfirmPage
    /\ \E typed \in TypedCodes : typedCode' = typed
    /\ UNCHANGED <<route, decodedText, dataHash, dataConfirmationCode, codes, selected,
                   isValidHash, attempts>>
    /\ UNCHANGED <<sendVars, recvVars, utilVars, compVars, visitVars>>

(* The ticket string without its separator *)
fullTicketNoSeparator(hash, confirmation) == hash \o Trim(confirmation)

(* `${data.hash}:${confirmationCode.trim()}` *)
fullTicket(hash, confirmation) == hash \o ":" \o Trim(confirmation)

(* handleSubmit of the typed-code confirm page *)
handleSubmit ==
    /\ route = TypedConfirmPage
    /\ IF Trim(typedCode) = ""
       THEN UNCHANGED <<route, dataHash, dataConfirmationCode, codes, typedCode,
                        isValidHash, attempts, recvVars, visitVars>>
       ELSE goto("/transfers/transferring?ticket="
                 \o encodeURIComponent(fullTicket(dataHash[1], typedCode)))
    /\ UNCHANGED <<decodedText, selected>>
    /\ UNCHANGED <<sendVars, utilVars, compVars>>

(* A hash whose code is c: c characters of code 101 *)
RECURSIVE HashFor(_)
HashFor(c) == IF c = 0 THEN "" ELSE "e" \o HashFor(c - 1)

(* The confirm page of a hash whose code is c, as its script has set     *)
(* codes = [data.confirmationCode] and is about to enter the loop        *)
ChallengeInit ==
    \E c \in CodeRange :
        /\ route = ConfirmPage
        /\ decodedText = Some(HashFor(c))
        /\ dataHash = Some(HashFor(c))
        /\ dataConfirmationCode = Some(c)
        /\ codes = << c >>
        /\ selected = None
        /\ typedCode = ""
        /\ isValidHash = "pending"
        /\ attempts = 0

(* One pass of the while loop *)
whileIteration ==
    /\ route = ConfirmPage
    /\ Len(codes) < 3
    /\ \E randomCode \in RandomCodes : codes' = whileBody(codes, randomCode)
    /\ attempts' = IF attempts < MaxAttempts THEN attempts + 1 ELSE attempts
    /\ UNCHANGED <<route, decodedText, dataHash, dataConfirmationCode, selected, typedCode,
                   isValidHash>>
    /\ UNCHANGED <<sendVars, recvVars, utilVars, compVars, visitVars>>

(* What load of the confirm page returns for each QR code of the        *)
(* sender's page: { hash, confirmationCode }                            *)
ticketData ==
    [text \in Tickets |->
        LET hash == searchParamsGet("/transfers/recieve/confirm?hash=" \o text, "hash")
        IN  [hash |-> hash, confirmationCode |-> getConfirmationCode(hash[1])]]

(* qrCodeSuccessCallback for a QR code of the sender's page, up to the  *)
(* point where the confirm page's script has set                        *)
(* codes = [data.confirmationCode] and is about to enter the loop       *)
qrCodeSuccessCallbackToLoop ==
    /\ route = ScanPage
    /\ \E text \in Tickets :
        /\ decodedText' = Some(text)
        /\ route' = ConfirmPage
        /\ dataHash' = ticketData[text].hash
        /\ dataConfirmationCode' = Some(ticketData[text].confirmationCode)
        /\ codes' = << ticketData[text].confirmationCode >>
    /\ isValidHash' = "pending"
    /\ attempts' = 0
    /\ UNCHANGED <<selected, typedCode>>
    /\ UNCHANGED <<sendVars, recvVars, utilVars, compVars, visitVars>>

-----------------------------------------------------------------------------
(* The FileTransfer component of one blob of the transferring page *)

(* n / d as JavaScript computes it: a number when d # 0 *)
Quotient(n, d) == [num |-> n, den |-> d]

(* The values of the file prop: a blob of some size and the bytes of it *)
(* that have arrived                                                     *)
FileProps ==
    {f \in [name : {BlobNames[i] : i \in 1..Len(BlobNames)},
            transferred : 0..MaxBytes,
            total : 1..MaxBytes] : f.transferred <= f.total}

(* The script block: let previousFile = file; internetSpeed = 0;         *)
(* timeLeft = 0; onMount has requested the first animation frame         *)
CompInit ==
    /\ file \in FileProps
    /\ previousFile = file
    /\ internetSpeed = 0
    /\ timeLeft = Quotient(0, 1)

(* The page renders a new snapshot: the prop is replaced *)
setFile ==
    /\ file # None
    /\ \E f \in FileProps : f.name = file.name /\ file' = f
    /\ UNCHANGED <<previousFile, internetSpeed, timeLeft>>
    /\ UNCHANGED <<sendVars, recvVars, utilVars, pairVars, visitVars>>

(* updateTransfer, run on an animation frame *)
updateTransfer ==
    /\ file # None
    /\ IF previousFile.transferred # file.transferred
       THEN /\ internetSpeed' = file.transferred - previousFile.transferred
            /\ timeLeft' = Quotient(file.total - file.transferred, internetSpeed')
            /\ previousFile' = file
       ELSE UNCHANGED <<previousFile, internetSpeed, timeLeft>>
    /\ UNCHANGED file
    /\ UNCHANGED <<sendVars, recvVars, utilVars, pairVars, visitVars>>

-----------------------------------------------------------------------------
(* Specifications *)

Init ==
    /\ SendInit /\ RecvIdle /\ UtilIdle /\ PairIdle("/transfers/send")
    /\ CompIdle /\ Registered(1, 0)

Next ==
    \/ onMountResolved
    \/ onMountRejected
    \/ sender_progress

Spec == Init /\ [][Next]_vars

InitReceiver ==
    /\ SendIdle /\ RecvInit /\ UtilIdle /\ PairIdle("/transfers/transferring")
    /\ CompIdle /\ Registered(0, 1)

NextReceiver ==
    \/ receiveResolved
    \/ receiveRejected
    \/ download_progress
    \/ openDirectory

SpecReceiver == InitReceiver /\ [][NextReceiver]_vars

InitRun ==
    /\ TicketShown /\ RecvIdle /\ UtilIdle /\ PairIdle("/transfers/send")
    /\ CompIdle /\ Registered(1, 0)

NextRun == sender_progress_run

SpecRun == InitRun /\ [][NextRun]_vars

InitUtil ==
    /\ SendIdle /\ RecvIdle /\ UtilInit /\ PairIdle("/")
    /\ CompIdle /\ Registered(0, 0)

NextUtil == callGetConfirmationCode

SpecUtil == InitUtil /\ [][NextUtil]_vars

InitPairing ==
    /\ SendIdle /\ RecvIdle /\ UtilIdle
    /\ \E r \in {ScanPage, ManualPage} : PairIdle(r)
    /\ CompIdle /\ Registered(0, 0)

NextPairing ==
    \/ scanResult
    \/ qrCodeSuccessCallback
    \/ redirect
    \/ click
    \/ input
    \/ handleSubmit

SpecPairing == InitPairing /\ [][NextPairing]_vars

(* Scanning a code and answering the challenge while the engine *)
(* validates the ticket                                         *)
InitValidate ==
    /\ SendIdle /\ RecvIdle /\ UtilIdle /\ PairIdle(ScanPage)
    /\ CompIdle /\ Registered(0, 0)

NextValidate ==
    \/ qrCodeSuccessCallback
    \/ isValidTicketSettled
    \/ click

SpecValidate == InitValidate /\ [][NextValidate]_vars

(* Page visits from the transfers page: send and back, receive and close *)
InitVisits ==
    /\ SendIdle /\ RecvIdle /\ UtilIdle /\ PairIdle("/transfers")
    /\ CompIdle /\ Registered(0, 0)

NextVisits ==
    \/ sendClick
    \/ sendBack
    \/ onMountResolved
    \/ onMountRejected
    \/ receiveTicket
    \/ closeTransferring
    \/ receiveResolved
    \/ receiveRejected

SpecVisits == InitVisits /\ [][NextVisits]_vars

InitChallenge ==
    /\ SendIdle /\ RecvIdle /\ UtilIdle /\ ChallengeInit
    /\ CompIdle /\ Registered(0, 0)

NextChallenge == whileIteration

SpecChallenge == InitChallenge /\ [][NextChallenge]_vars

InitFileTransfer ==
    /\ SendIdle /\ RecvIdle /\ UtilIdle /\ PairIdle(TransferringPage)
    /\ CompInit /\ Registered(0, 1)

NextFileTransfer ==
    \/ setFile
    \/ updateTransfer

SpecFileTransfer == InitFileTransfer /\ [][NextFileTransfer]_vars

(* A user who scans the sender's QR code, looks at the challenge, goes  *)
(* back and scans again, for ever.  The loop keeps running, and a       *)
(* position of the correct code that keeps being possible is            *)
(* eventually drawn.                                                    *)
InitRechallenge ==
    /\ SendIdle /\ RecvIdle /\ UtilIdle /\ PairIdle(ScanPage)
    /\ CompIdle /\ Registered(0, 0)

NextRechallenge ==
    \/ qrCodeSuccessCallbackToLoop
    \/ whileIteration
    \/ back
    \/ receiveClick

SpecRechallenge ==
    /\ InitRechallenge
    /\ [][NextRechallenge]_vars
    /\ WF_vars(qrCodeSuccessCallbackToLoop)
    /\ WF_vars(whileIteration)
    /\ WF_vars(back)
    /\ WF_vars(receiveClick)
    /\ \A k \in 1..3 :
        SF_vars(whileIteration /\ Len(codes') = 3 /\ codes'[k] = dataConfirmationCode[1])

-----
(* Properties of the sender session *)

Terminal == {"completed", "aborted"}

(* This step is the delivery of payload m to the sender_progress listener *)
Delivered(m) == received' = Append(received, m)

(* C1: once status is 'completed' or 'aborted', no later sender_progress  *)
(* event changes status again.                                            *)
C1_TerminalStatusIsFinal ==
    [][(status \in Terminal) => (status' = status)]_vars

(* C2: after connection_id has been stored, a blob completed, transfer    *)
(* completed or transfer aborted event that leads with a different        *)
(* connection id leaves status and transferredBlobs as they were.         *)
C2_StaleEventIgnored ==
    [][\A id \in ConnIds, a \in Actions \ {"client connected"} :
          (/\ connection_id # None
           /\ connection_id # Some(id)
           /\ Delivered(id \o " " \o a))
          => (status' = status /\ transferredBlobs' = transferredBlobs)]_vars

(* C3: '<id> client connected' received in WAITING moves the session to   *)
(* TRANSFERRING, stores id as connection_id, sets transferredBlobs to 0   *)
(* and leaves totalBlobs equal to the number of files.                    *)
C3_PeerConnected ==
    [][\A id \in ConnIds :
          (status = "waiting" /\ Delivered(id \o " client connected"))
          => (/\ status' = "transferring"
              /\ connection_id' = Some(id)
              /\ transferredBlobs' = 0
              /\ totalBlobs' = Len(files')
              /\ totalBlobs' = totalBlobs)]_vars

(* A peer connected in WAITING after a blob had already been counted *)
C3_Witness ==
    /\ received = <<"c1 transfer blob completed", "c1 client connected">>
    /\ status = "transferring"
    /\ connection_id = Some("c1")
    /\ transferredBlobs = 0
    /\ totalBlobs = 3

(* C4: a transfer completed event of the tracked connection received in   *)
(* TRANSFERRING moves the session to COMPLETED with transferredBlobs =    *)
(* totalBlobs, whatever number of blob completed events came before.      *)
C4_TransferCompleted ==
    [][\A id \in ConnIds :
          (/\ status = "transferring"
           /\ connection_id = Some(id)
           /\ Delivered(id \o " transfer completed"))
          => (status' = "completed" /\ transferredBlobs' = totalBlobs')]_vars

(* Completion arrived with no blob completed event before it *)
C4_Witness ==
    /\ received = <<"c1 client connected", "c1 transfer completed">>
    /\ status = "completed"
    /\ totalBlobs = 3
    /\ transferredBlobs = 3

(* C5: status becomes 'completed' only from 'transferring'. *)
C5_CompletedOnlyFromTransferring ==
    [][(status # "completed" /\ status' = "completed")
          => status = "transferring"]_vars

(* The end-to-end run of connection id over three files *)
EndToEnd(id) ==
    <<id \o " client connected",
      id \o " transfer blob completed",
      id \o " transfer blob completed",
      id \o " transfer blob completed",
      id \o " transfer completed">>

(* C6: with three files, the run peer connected, blob completed x3,       *)
(* transfer completed on one connection counts 1, 2, 3 transferred blobs  *)
(* and ends COMPLETED with transferredBlobs = totalBlobs = 3.             *)
C6_EndToEnd ==
    \A id \in ConnIds :
        Len(files) = 3 =>
            /\ \A k \in 1..3 :
                  received = SubSeq(EndToEnd(id), 1, 1 + k)
                  => (status = "transferring" /\ transferredBlobs = k)
            /\ received = EndToEnd(id)
               => (/\ status = "completed"
                   /\ transferredBlobs = 3
                   /\ totalBlobs = 3)

(* The ticket was generated and the whole run was delivered *)
C6_Witness ==
    /\ Len(files) = 3
    /\ ticketCall = "resolved"
    /\ received = EndToEnd("c1")
    /\ status = "completed"
    /\ messages = <<"Client connected", "Blob transferred", "Blob transferred",
                    "Blob transferred", "Transfer completed">>

(* C7: when invoke('receive_files') has rejected, the receiver page no    *)
(* longer shows the in-progress headline.                                 *)
C7_ReceiveFailureShown ==
    receiveCall = "rejected" => Headline # "Wait a moment while transfering"

(* C8: when invoke('generate_ticket') has rejected, the sender session is *)
(* ABORTED.                                                               *)
C8_TicketFailureAborts ==
    ticketCall = "rejected" => status = "aborted"

(* C9: in a terminal session, a late blob completed event of the tracked  *)
(* connection changes neither transferredBlobs nor status.                *)
C9_LateEventDiscarded ==
    [][\A id \in ConnIds :
          (/\ status \in Terminal
           /\ connection_id = Some(id)
           /\ Delivered(id \o " transfer blob completed"))
          => (transferredBlobs' = transferredBlobs /\ status' = status)]_vars

-----------------------------------------------------------------------------
(* Properties of getConfirmationCode *)

RECURSIVE SumOfCharCodes(_, _)
SumOfCharCodes(s, n) ==
    IF n = 0 THEN 0
    ELSE SumOfCharCodes(s, n - 1) + charCodeAt(SubSeq(s, n, n))

(* C10: getConfirmationCode(handle) is the sum of the character codes of  *)
(* handle modulo 100, an integer in [0,100); "" gives 0 and "ab" gives 95.*)
C10_ConfirmationCode ==
    code # None =>
        /\ code[1] = SumOfCharCodes(handle, Len(handle)) % 100
        /\ code[1] \in 0..99
        /\ (handle = "" => code[1] = 0)
        /\ (handle = "ab" => code[1] = 95)

(* getConfirmationCode was called on "ab" *)
C10_Witness ==
    /\ handle = "ab"
    /\ code = Some(95)

-----------------------------------------------------------------------------
(* Properties of the receiver's progress snapshots *)

(* This step is the delivery of snapshot p to the download_progress listener *)
DeliveredSnapshot(p) == progress' = Append(progress, p)

(* C18: after any sequence of download_progress events the blob list is   *)
(* exactly the payload of the last event delivered.                       *)
C18_SnapshotReplaces ==
    progress # << >> => transferFiles = progress[Len(progress)]

(* A two-blob snapshot was followed by a one-blob snapshot *)
C18_Witness ==
    /\ Len(progress) = 2
    /\ Len(progress[1]) = 2
    /\ progress[1][1].transferred = MaxBytes
    /\ Len(progress[2]) = 1
    /\ progress[2][1].transferred = 1
    /\ transferFiles = progress[2]

(* C19: delivering the snapshot that was delivered last once more leaves  *)
(* the receiver session as it was.                                        *)
C19_SnapshotIdempotent ==
    [][\A p \in Snapshots :
          (/\ progress # << >>
           /\ progress[Len(progress)] = p
           /\ DeliveredSnapshot(p))
          => UNCHANGED <<transferFiles, done, output, time_complete,
                         receiveCall, dataTicket>>]_vars

(* The same non-empty snapshot was delivered twice in a row *)
C19_Witness ==
    /\ Len(progress) = 2
    /\ progress[1] = progress[2]
    /\ Len(progress[1]) = 2
    /\ progress[1][1].transferred = 1
    /\ transferFiles = progress[1]

-----------------------------------------------------------------------------
(* Properties of the progress percentage *)

-----------------------------------------------------------------------------
(* Properties of the pairing flow *)

(* C11: whenever the confirm page shows a challenge for a scanned       *)
(* ticket, the code it treats as correct is the code the sender's page  *)
(* displays for that ticket, getConfirmationCode of the ticket.         *)
C11_CodesAgree ==
    route = ConfirmPage =>
        dataConfirmationCode = Some(getConfirmationCode(decodedText[1]))

(* C12: the list the confirm page builds from a correct code c in       *)
(* [0,100) never has more than 3 entries, and once the loop has ended   *)
(* it has exactly 3, all integers in [0,100), pairwise distinct, with c *)
(* among them.                                                          *)
C12_BuildChallenge ==
    /\ Len(codes) <= 3
    /\ (route = ConfirmPage /\ ~ENABLED whileIteration) =>
        /\ Len(codes) = 3
        /\ \A i \in 1..3 : codes[i] \in 0..99
        /\ \A i, j \in 1..3 : i # j => codes[i] # codes[j]
        /\ \E i \in 1..3 : codes[i] = dataConfirmationCode[1]

(* A finished challenge for the correct code 42 *)
C12_Witness ==
    /\ route = ConfirmPage
    /\ dataConfirmationCode = Some(42)
    /\ codes = << 42, 7, 99 >>

(* C13: the position of the correct code among the three is not       *)
(* fixed: for each of the three positions, a user who keeps opening     *)
(* challenges eventually sees one with the correct code at that         *)
(* position.                                                            *)
C13_CorrectCodeAtEveryIndex ==
    \A k \in 1..3 :
        <>(route = ConfirmPage /\ Len(codes) = 3 /\ codes[k] = dataConfirmationCode[1])

(* The correct code is the first entry in every state of the loop and   *)
(* of the finished page, and the page renders the entries in list order *)
CorrectCodeFirst ==
    route = ConfirmPage => codes[1] = dataConfirmationCode[1]

(* C14: a click on a Code button of the confirm page compares the       *)
(* button's code with the correct one and nothing else: on equality the *)
(* transferring page is opened for the hash that was challenged and     *)
(* receive_files is requested; otherwise the confirm page is left for a *)
(* page that requests nothing, so the challenge cannot be tried again.  *)
C14_ResolveChallenge ==
    [][\A i \in 1..3 :
        (route = ConfirmPage /\ selected' = Some(codes[i])) =>
            IF codes[i] = dataConfirmationCode[1]
            THEN /\ route' = TransferringPage
                 /\ receiveCall' = "pending"
                 /\ dataTicket' = dataHash[1]
            ELSE /\ route' \notin {ConfirmPage, TransferringPage}
                 /\ UNCHANGED recvVars]_vars

(* C15: receive_files is invoked only after a Code button with the      *)
(* correct code was clicked: whenever the transferring page has made    *)
(* the call, a code was selected and it is the correct code of the      *)
(* challenged hash.                                                     *)
C15_ReceiveOnlyAfterMatch ==
    receiveCall # "idle" =>
        /\ selected # None
        /\ selected = dataConfirmationCode

(* Ticket Codec decode: the string is split at its last separator and   *)
(* the suffix read as a base-10 integer in [0,100)                      *)
RECURSIVE LastIndexOf(_, _, _)
LastIndexOf(s, sep, from) ==
    IF from < 1 THEN 0
    ELSE IF SubSeq(s, from, from) = sep THEN from
    ELSE LastIndexOf(s, sep, from - 1)

Digits == {"0", "1", "2", "3", "4", "5", "6", "7", "8", "9"}

DigitValue(c) == CHOOSE n \in 0..9 : ToString(n) = c

RECURSIVE ParseDecimal(_, _)
ParseDecimal(s, acc) ==
    IF Len(s) = 0 THEN acc
    ELSE ParseDecimal(SubSeq(s, 2, Len(s)), 10 * acc + DigitValue(SubSeq(s, 1, 1)))

IsDecimal(s) == Len(s) > 0 /\ \A i \in 1..Len(s) : SubSeq(s, i, i) \in Digits

(* The failure of decode *)
InvalidTicket == None

decode(raw) ==
    LET k == LastIndexOf(raw, ":", Len(raw))
        suffix == SubSeq(raw, k + 1, Len(raw))
    IN  IF k = 0 \/ ~IsDecimal(suffix) THEN InvalidTicket
        ELSE IF ParseDecimal(suffix, 0) \notin CodeRange THEN InvalidTicket
        ELSE Some([handle |-> SubSeq(raw, 1, k - 1), code |-> ParseDecimal(suffix, 0)])

(* A handle encode accepts: non-empty and free of the separator *)
ValidHandle(h) == Len(h) > 0 /\ IndexOf(h, ":", 1) = 0

(* The decimal forms of the codes in [0,100) *)
Decimals == {ToString(c) : c \in CodeRange}

(* handleSubmit has opened the transferring page *)
Submitted == receiveCall # "idle" /\ selected = None

(* C16: when handleSubmit has built "<h>:<c>" from a non-empty,         *)
(* separator-free hash h and the decimal form of a code c in [0,100),   *)
(* decoding the ticket the transferring page received gives back        *)
(* exactly handle h and code c.                                         *)
C16_TicketRoundTrip ==
    (Submitted /\ ValidHandle(dataHash[1]) /\ Trim(typedCode) \in Decimals) =>
        decode(dataTicket) =
            Some([handle |-> dataHash[1],
                  code |-> CHOOSE c \in CodeRange : ToString(c) = Trim(typedCode)])

(* The ticket of hash 'ab' and code 95 has reached the transferring page *)
C16_Witness ==
    /\ Submitted
    /\ dataHash = Some("ab")
    /\ typedCode = "95"
    /\ dataTicket = "ab:95"

(* C17: a ticket is built and a transfer requested only from a valid    *)
(* handle and code: whenever handleSubmit has opened the transferring   *)
(* page, the hash is non-empty and free of ':', and the typed code is   *)
(* the decimal form of an integer in [0,100) equal to                   *)
(* getConfirmationCode of the hash.                                     *)
C17_InvalidTicketRejected ==
    Submitted =>
        /\ ValidHandle(dataHash[1])
        /\ Trim(typedCode) \in Decimals
        /\ Trim(typedCode) = ToString(getConfirmationCode(dataHash[1]))

-----------------------------------------------------------------------------
(* Properties of the FileTransfer component *)

(* A number that is not negative *)
NonNegative(q) == q.den # 0 /\ q.num * q.den >= 0

(* The +infinity-equivalent that stands for an unavailable rate *)
RateUnavailable(q) == q.den = 0 /\ q.num > 0

(* This step is updateTransfer observing a changed byte count *)
RateObserved ==
    /\ file # None
    /\ previousFile.transferred # file.transferred
    /\ previousFile' = file

(* C21: when updateTransfer observes a rate, the difference between the *)
(* current and the previous byte count, the time left it stores is a    *)
(* non-negative number if the rate is positive and the RateUnavailable  *)
(* sentinel if the rate is zero or negative.                            *)
C21_TimeLeftNeverNegative ==
    [][RateObserved =>
        IF file.transferred - previousFile.transferred > 0
        THEN NonNegative(timeLeft')
        ELSE RateUnavailable(timeLeft')]_vars

(* C22: building the distractors stops after a bounded number of        *)
(* passes: once MaxAttempts passes of the loop have been taken, the     *)
(* list has its three codes (the page has no failure outcome).          *)
C22_BoundedAttempts ==
    (route = ConfirmPage /\ attempts >= MaxAttempts) => Len(codes) = 3

-----------------------------------------------------------------------------
(* Further properties of the sender session *)

(* C23: a transfer aborted event received in WAITING or TRANSFERRING    *)
(* moves the session to ABORTED and leaves connection_id,               *)
(* transferredBlobs and totalBlobs as they were.                        *)
C23_AbortOnlyMarksStatus ==
    [][\A id \in ConnIds :
          (status \in {"waiting", "transferring"} /\ Delivered(id \o " transfer aborted"))
          => (/\ status' = "aborted"
              /\ UNCHANGED <<connection_id, transferredBlobs, totalBlobs>>)]_vars

(* An abort in TRANSFERRING after one blob of three was counted *)
C23_Witness ==
    /\ status = "aborted"
    /\ received = <<"c1 client connected", "c1 transfer blob completed",
                    "c1 transfer aborted">>
    /\ connection_id = Some("c1")
    /\ transferredBlobs = 1
    /\ totalBlobs = 3

(* C25: the number of completed blobs stays between 0 and the number of *)
(* blobs of the session, whatever events are delivered and in whatever  *)
(* order.                                                               *)
C25_CompletedWithinTotal ==
    0 <= transferredBlobs /\ transferredBlobs <= totalBlobs

(* C26: whenever status is 'completed', transferredBlobs equals         *)
(* totalBlobs, also after events that arrive after the completion.      *)
C26_CompletedMeansAllBlobs ==
    status = "completed" => transferredBlobs = totalBlobs

(* C27: a client connected event received in TRANSFERRING, when a       *)
(* connection id is already stored, leaves connection_id and            *)
(* transferredBlobs as they were.                                       *)
C27_SecondConnectIgnored ==
    [][\A id \in ConnIds :
          (/\ status = "transferring"
           /\ connection_id # None
           /\ Delivered(id \o " client connected"))
          => UNCHANGED <<connection_id, transferredBlobs>>]_vars

(* C29: whenever the WAITING sender shows its ticket, it shows the      *)
(* confirmation code as well, and that code is getConfirmationCode of   *)
(* the ticket.                                                          *)
C29_CodeShownWithTicket ==
    QrCodeShown =>
        /\ ConfirmationCodeShown
        /\ confirmationCode = Some(getConfirmationCode(hashCode[1]))

(* done, output, time_complete and the directory last handed to *)
(* open_directory agree with the outcome of receive_files       *)
DoneAfterResolve ==
    /\ done <=> (receiveCall = "resolved")
    /\ done => (output \in Directories /\ time_complete # None)
    /\ (opened # None) => (done /\ opened = Some(output))

(* done is raised by the resolving call only and nothing is undone *)
DoneIsStable ==
    /\ (~done /\ done') =>
         (receiveCall = "pending" /\ output' \in Directories /\ time_complete' # None)
    /\ done => (done' /\ output' = output /\ time_complete' = time_complete)
    /\ (opened' # opened) => (done /\ opened' = Some(output))

(* C30: on the receiver, done is true only after receive_files has      *)
(* resolved: with done true, output is the directory the call returned  *)
(* and time_complete is set; open_directory is only invoked with that   *)
(* directory; done, output and time_complete never change afterwards.   *)
C30_DoneOnlyAfterResolve == []DoneAfterResolve /\ [][DoneIsStable]_vars

(* receive_files resolved with /downloads, a later snapshot arrived and *)
(* the file manager was opened on that directory                        *)
C30_Witness ==
    /\ done
    /\ receiveCall = "resolved"
    /\ output = "/downloads"
    /\ time_complete = Some(MaxClock)
    /\ opened = Some("/downloads")
    /\ Len(progress) = 1

(* C28: a ticket the engine reported invalid does not stay on the       *)
(* challenge page and receive_files is never requested for it; a        *)
(* transfer is requested only for a ticket the engine reported valid.   *)
C28_OnlyValidTicketRequested ==
    /\ isValidHash = "invalid" => route # ConfirmPage
    /\ (route = TransferringPage /\ receiveCall = "pending") => isValidHash = "valid"

(* C24: across any sequence of page visits at most one sender_progress  *)
(* listener and at most one download_progress listener is registered,   *)
(* so no listener of an abandoned session is left to consume events.    *)
C24_OneListenerAtATime ==
    senderListeners <= 1 /\ receiverListeners <= 1
====
